---- MODULE Spec2Model ----
(***************************************************************************)
(* Model of baseplate.lib.experiments.Experiments: the memoizing lookup    *)
(* from experiment name to parsed experiment, the bucketing-event dedup    *)
(* policy of variant(), expose(), and the introspection helpers, run       *)
(* against a ConfigWatcher snapshot that is refreshed in the background.   *)
(***************************************************************************)
EXTENDS FiniteSets, Integers, Sequences, TLC

\* ------------------------------------------------------------------ bounds
\* The event log is cut off at this many events.
MaxLogged == 2
MaxWarnings == 2

\* ------------------------------------------------------------ Python values
None == "<None>"
PyTrue == "True"
PyFalse == "False"
NoExc == "none"

\* Python truthiness of the strings/optionals used here: None and "" are falsy.
Truthy(v) == v # None /\ v # ""

\* ---------------------------------------------------------------- universe
Names == {"exp1", "exp2"}
UserIds == {None, "", "u1", "u2"}
\* A User object is named by the user_id its event_fields() carries.
Users == {"u1"}
Overrides == {None, PyTrue, PyFalse}
VariantNames == {"treatment", "bogus"}
\* user_id values passed to expose()
ExposedIds == {"u1"}

\* Definition blobs a snapshot can hold for a name: an empty blob ({}), a blob
\* that parse_experiment rejects, and three well-formed definitions.
EmptyBlob == "{}"
InvalidBlob == "invalid"
ValidBlobs == {"defA", "defB", "defC"}
Blobs == {EmptyBlob, InvalidBlob} \cup ValidBlobs
Experiment == {"A", "B", "C"}

\* EventType (the enum's values)
EXPOSE == "expose"
BUCKET == "choose"

\* The threads that may share one Experiments instance.
Threads == {"t1", "t2"}

\* What a failing EventLogger.log raises into its caller.
EventLoggerError == "EventLoggerError"

\* ------------------------------------------------- external collaborators
\* parse_experiment: a provider, or an exception on a malformed definition.
parse_experiment(blob) ==
    CASE blob = "defA" -> [exc |-> NoExc, experiment |-> "A"]
      [] blob = "defB" -> [exc |-> NoExc, experiment |-> "B"]
      [] blob = "defC" -> [exc |-> NoExc, experiment |-> "C"]
      [] OTHER -> [exc |-> "ValueError", experiment |-> None]

\* Experiment.variant(**inputs): A buckets u1 into "treatment" and u2 into the
\* empty-string variant; C leaves u1 out (None) and gives everyone else
\* "control"; B gives everyone "control".
Experiment_variant(experiment, inputs) ==
    CASE experiment = "A" ->
            (CASE inputs.user_id = "u1" -> "treatment"
               [] inputs.user_id = "u2" -> ""
               [] OTHER -> None)
      [] experiment = "C" -> (IF inputs.user_id = "u1" THEN None ELSE "control")
      [] OTHER -> "control"

\* Experiment.get_unique_id(**inputs): every provider here buckets by user_id.
get_unique_id(experiment, inputs) == inputs.user_id

\* Experiment.should_log_bucketing(): B disables bucketing events.
should_log_bucketing(experiment) == experiment # "B"

\* User.event_fields()
event_fields(user) == [user_id |-> user]

\* ConfigWatcher snapshots: not yet available, loaded but not a mapping, or a
\* mapping from some names to blobs. The watcher publishes these generations.
EmptyMapping == [n \in {} |-> EmptyBlob]
Unavailable == [available |-> FALSE, mapping |-> FALSE, data |-> EmptyMapping]
NotAMapping == [available |-> TRUE, mapping |-> FALSE, data |-> EmptyMapping]
Loaded(m) == [available |-> TRUE, mapping |-> TRUE, data |-> m]
Snapshots ==
    {Unavailable, NotAMapping,
     Loaded([n \in Names |-> IF n = "exp1" THEN "defA" ELSE "defC"]),
     Loaded([n \in Names |-> IF n = "exp1" THEN InvalidBlob ELSE EmptyBlob]),
     Loaded([n \in {"exp1"} |-> "defB"])}

\* ------------------------------------------------------------------- state
VARIABLES
    config_data,         \* what _config_watcher.get_data() currently yields
    _experiment_cache,   \* dict: name -> Experiment or None
    _already_bucketed,   \* set of bucketing ids
    logged,              \* the calls _event_logger.log has received, in order
    error_names,         \* names logger.error has reported as invalid
    warning_count,       \* per name, the logger.warning calls of _get_config
    calls,               \* variant() calls in progress on the shared instance
    overlapped,          \* whether a variant() call began while another ran
    last                 \* the most recent call: arguments and outcome

vars ==
    <<config_data, _experiment_cache, _already_bucketed, logged, error_names,
      warning_count, calls, overlapped, last>>

\* ------------------------------------------------------------- _get_config
\* The exception the try body raises, if any.
get_config_raises(config, name) ==
    IF ~config.available THEN "WatchedFileNotAvailableError"
    ELSE IF ~config.mapping THEN "TypeError"
    ELSE IF name \notin DOMAIN config.data THEN "KeyError"
    ELSE NoExc

\* Mutants: a handler is missing.
get_config_handles_no_KeyError == {"WatchedFileNotAvailableError", "TypeError"}
get_config_handles_no_TypeError == {"WatchedFileNotAvailableError", "KeyError"}

\* The exceptions _get_config has handlers for.
get_config_handles == {"WatchedFileNotAvailableError", "KeyError", "TypeError"}

_get_config(config, name) ==
    LET exc == get_config_raises(config, name) IN
    IF exc = NoExc THEN [exc |-> NoExc, val |-> config.data[name], warned |-> FALSE]
    ELSE IF exc \in get_config_handles
    THEN [exc |-> NoExc, val |-> None, warned |-> TRUE]
    ELSE [exc |-> exc, val |-> None, warned |-> FALSE]

\* ---------------------------------------------------------- _get_experiment
\* `not experiment_config`
config_is_falsy(experiment_config) ==
    experiment_config = None \/ experiment_config = EmptyBlob

cache_put(cache, name, experiment) ==
    [n \in DOMAIN cache \cup {name} |-> IF n = name THEN experiment ELSE cache[n]]

\* Mutant: the failed parse is memoized as absent.
parse_failed_memoized(cache, name) ==
    [exc |-> NoExc, experiment |-> None, cache |-> cache_put(cache, name, None),
     errors |-> {name}, reads |-> 1, warnings |-> {}]

\* The `except Exception` branch: log the error and return None, storing nothing.
parse_failed(cache, name) ==
    [exc |-> NoExc, experiment |-> None, cache |-> cache, errors |-> {name},
     reads |-> 1, warnings |-> {}]

\* The body of `if name not in self._experiment_cache:`
resolve_experiment(cache, config, name) ==
    LET experiment_config == _get_config(config, name) IN
    IF experiment_config.exc # NoExc
    THEN [exc |-> experiment_config.exc, experiment |-> None, cache |-> cache,
          errors |-> {}, reads |-> 1, warnings |-> {}]
    ELSE IF config_is_falsy(experiment_config.val)
    THEN [exc |-> NoExc, experiment |-> None,
          cache |-> cache_put(cache, name, None), errors |-> {}, reads |-> 1,
          warnings |-> IF experiment_config.warned THEN {name} ELSE {}]
    ELSE
        LET parsed == parse_experiment(experiment_config.val) IN
        IF parsed.exc # NoExc
        THEN parse_failed(cache, name)
        ELSE [exc |-> NoExc, experiment |-> parsed.experiment,
              cache |-> cache_put(cache, name, parsed.experiment), errors |-> {},
              reads |-> 1, warnings |-> {}]

\* Mutant: a name memoized as None is resolved again.
_get_experiment_retries_absent(cache, config, name) ==
    IF name \in DOMAIN cache /\ cache[name] # None
    THEN [exc |-> NoExc, experiment |-> cache[name], cache |-> cache, errors |-> {},
          reads |-> 0, warnings |-> {}]
    ELSE resolve_experiment(cache, config, name)

\* Mutant: the snapshot is consulted before the cache is.
_get_experiment_reads_first(cache, config, name) ==
    LET fresh == resolve_experiment(cache, config, name) IN
    IF name \in DOMAIN cache
    THEN [exc |-> NoExc, experiment |-> cache[name], cache |-> cache, errors |-> {},
          reads |-> 1, warnings |-> fresh.warnings]
    ELSE fresh

_get_experiment(cache, config, name) ==
    IF name \in DOMAIN cache
    THEN [exc |-> NoExc, experiment |-> cache[name], cache |-> cache, errors |-> {},
          reads |-> 0, warnings |-> {}]
    ELSE resolve_experiment(cache, config, name)

\* ------------------------------------------------- get_all_experiment_names
\* Mutant: the memoized names are listed instead of the snapshot's keys.
get_all_experiment_names_from_cache(config) ==
    IF ~config.available THEN [exc |-> "WatchedFileNotAvailableError", ret |-> {}]
    ELSE IF ~config.mapping THEN [exc |-> "AttributeError", ret |-> {}]
    ELSE [exc |-> NoExc, ret |-> DOMAIN _experiment_cache]

get_all_experiment_names(config) ==
    IF ~config.available THEN [exc |-> "WatchedFileNotAvailableError", ret |-> {}]
    ELSE IF ~config.mapping THEN [exc |-> "AttributeError", ret |-> {}]
    ELSE [exc |-> NoExc, ret |-> DOMAIN config.data]

\* ------------------------------------------------------- is_valid_experiment
is_valid_experiment(cache, config, name) ==
    LET r == _get_experiment(cache, config, name) IN
    [exc |-> r.exc,
     ret |-> IF r.exc = NoExc /\ r.experiment # None THEN PyTrue ELSE PyFalse,
     cache |-> r.cache, errors |-> r.errors, reads |-> r.reads,
     warnings |-> r.warnings]

\* ------------------------------------------------------------------ variant
\* inputs = dict(kwargs); if user: inputs.update(user.event_fields())
merge_inputs(user, kwargs) ==
    IF user # None THEN event_fields(user) ELSE kwargs

log_event(experiment, variant_value, inputs, event_type) ==
    [experiment |-> experiment, variant |-> variant_value,
     user_id |-> inputs.user_id, event_type |-> event_type, inputs |-> inputs]

\* Mutant: the membership test on _already_bucketed is missing.
do_log_no_dedup(experiment, variant_value, bucketing_id, bucketing_event_override, bucketed) ==
    /\ Truthy(bucketing_id)
    /\ variant_value # None
    /\ bucketing_event_override # PyFalse
    /\ should_log_bucketing(experiment)

\* Mutant: `if not variant` in place of `if variant is None`.
do_log_falsy_variant(experiment, variant_value, bucketing_id, bucketing_event_override, bucketed) ==
    /\ Truthy(bucketing_id)
    /\ Truthy(variant_value)
    /\ bucketing_event_override # PyFalse
    /\ bucketing_id \notin bucketed
    /\ should_log_bucketing(experiment)

\* Mutant: the override test is missing.
do_log_ignores_override(experiment, variant_value, bucketing_id, bucketing_event_override, bucketed) ==
    /\ Truthy(bucketing_id)
    /\ variant_value # None
    /\ bucketing_id \notin bucketed
    /\ should_log_bucketing(experiment)

\* Mutant: should_log_bucketing() is not consulted.
do_log_ignores_should_log(experiment, variant_value, bucketing_id, bucketing_event_override, bucketed) ==
    /\ Truthy(bucketing_id)
    /\ variant_value # None
    /\ bucketing_event_override # PyFalse
    /\ bucketing_id \notin bucketed

\* Mutant: `if not bucketing_event_override` in place of `is False`.
do_log_falsy_override(experiment, variant_value, bucketing_id, bucketing_event_override, bucketed) ==
    /\ Truthy(bucketing_id)
    /\ variant_value # None
    /\ bucketing_event_override = PyTrue
    /\ bucketing_id \notin bucketed
    /\ should_log_bucketing(experiment)

\* Mutant: the dedup is per (experiment, identity): only an event already
\* logged for this experiment and identity suppresses the next one.
do_log_per_experiment(experiment, variant_value, bucketing_id, bucketing_event_override, bucketed) ==
    /\ Truthy(bucketing_id)
    /\ variant_value # None
    /\ bucketing_event_override # PyFalse
    /\ ~\E i \in 1..Len(logged) :
            /\ logged[i].event_type = BUCKET
            /\ logged[i].experiment = experiment
            /\ get_unique_id(logged[i].experiment, logged[i].inputs) = bucketing_id
    /\ should_log_bucketing(experiment)

\* The value of do_log at the `if do_log:` test.
do_log(experiment, variant_value, bucketing_id, bucketing_event_override, bucketed) ==
    LET d0 == TRUE
        d1 == IF ~Truthy(bucketing_id) THEN FALSE ELSE d0
        d2 == IF variant_value = None THEN FALSE ELSE d1
        d3 == IF bucketing_event_override = PyFalse THEN FALSE ELSE d2
        d4 == IF Truthy(bucketing_id) /\ bucketing_id \in bucketed THEN FALSE ELSE d3
    IN d4 /\ should_log_bucketing(experiment)

\* Mutant: the variant is returned only when the event was logged.
variant_returned_only_when_logged(cache, bucketed, config, name, user, bucketing_event_override, kwargs) ==
    LET r == _get_experiment(cache, config, name) IN
    IF r.exc # NoExc \/ r.experiment = None
    THEN [exc |-> r.exc, ret |-> None, cache |-> r.cache, bucketed |-> bucketed,
          emitted |-> <<>>, errors |-> r.errors,
              reads |-> r.reads, warnings |-> r.warnings]
    ELSE
        LET experiment == r.experiment
            inputs == merge_inputs(user, kwargs)
            variant_value == Experiment_variant(experiment, inputs)
            bucketing_id == get_unique_id(experiment, inputs)
        IN
        IF do_log(experiment, variant_value, bucketing_id, bucketing_event_override,
                  bucketed)
        THEN [exc |-> NoExc, ret |-> variant_value, cache |-> r.cache,
              bucketed |-> bucketed \cup {bucketing_id},
              emitted |-> <<log_event(experiment, variant_value, inputs, BUCKET)>>,
              errors |-> r.errors,
              reads |-> r.reads, warnings |-> r.warnings]
        ELSE [exc |-> NoExc, ret |-> None, cache |-> r.cache,
              bucketed |-> bucketed, emitted |-> <<>>, errors |-> r.errors,
              reads |-> r.reads, warnings |-> r.warnings]

\* Mutant: the identity is added to _already_bucketed before the do_log test.
variant_marks_suppressed(cache, bucketed, config, name, user, bucketing_event_override, kwargs) ==
    LET r == _get_experiment(cache, config, name) IN
    IF r.exc # NoExc \/ r.experiment = None
    THEN [exc |-> r.exc, ret |-> None, cache |-> r.cache, bucketed |-> bucketed,
          emitted |-> <<>>, errors |-> r.errors,
              reads |-> r.reads, warnings |-> r.warnings]
    ELSE
        LET experiment == r.experiment
            inputs == merge_inputs(user, kwargs)
            variant_value == Experiment_variant(experiment, inputs)
            bucketing_id == get_unique_id(experiment, inputs)
            marked == IF Truthy(bucketing_id) THEN bucketed \cup {bucketing_id}
                      ELSE bucketed
        IN
        IF do_log(experiment, variant_value, bucketing_id, bucketing_event_override,
                  bucketed)
        THEN [exc |-> NoExc, ret |-> variant_value, cache |-> r.cache,
              bucketed |-> marked,
              emitted |-> <<log_event(experiment, variant_value, inputs, BUCKET)>>,
              errors |-> r.errors,
              reads |-> r.reads, warnings |-> r.warnings]
        ELSE [exc |-> NoExc, ret |-> variant_value, cache |-> r.cache,
              bucketed |-> marked, emitted |-> <<>>, errors |-> r.errors,
              reads |-> r.reads, warnings |-> r.warnings]

variant(cache, bucketed, config, name, user, bucketing_event_override, kwargs) ==
    LET r == _get_experiment(cache, config, name) IN
    IF r.exc # NoExc \/ r.experiment = None
    THEN [exc |-> r.exc, ret |-> None, cache |-> r.cache, bucketed |-> bucketed,
          emitted |-> <<>>, errors |-> r.errors,
              reads |-> r.reads, warnings |-> r.warnings]
    ELSE
        LET experiment == r.experiment
            inputs == merge_inputs(user, kwargs)
            variant_value == Experiment_variant(experiment, inputs)
            bucketing_id == get_unique_id(experiment, inputs)
        IN
        IF do_log(experiment, variant_value, bucketing_id, bucketing_event_override,
                  bucketed)
        THEN [exc |-> NoExc, ret |-> variant_value, cache |-> r.cache,
              bucketed |-> bucketed \cup {bucketing_id},
              emitted |-> <<log_event(experiment, variant_value, inputs, BUCKET)>>,
              errors |-> r.errors,
              reads |-> r.reads, warnings |-> r.warnings]
        ELSE [exc |-> NoExc, ret |-> variant_value, cache |-> r.cache,
              bucketed |-> bucketed, emitted |-> <<>>, errors |-> r.errors,
              reads |-> r.reads, warnings |-> r.warnings]

\* ------------------------------------------------------------------- expose
\* Mutant: the event carries the provider's variant, not the caller's.
expose_recomputes_variant(cache, bucketed, config, experiment_name, variant_name, user, kwargs) ==
    LET r == _get_experiment(cache, config, experiment_name) IN
    IF r.exc # NoExc \/ r.experiment = None
    THEN [exc |-> r.exc, ret |-> None, cache |-> r.cache, bucketed |-> bucketed,
          emitted |-> <<>>, errors |-> r.errors,
              reads |-> r.reads, warnings |-> r.warnings]
    ELSE
        LET inputs == merge_inputs(user, kwargs) IN
        [exc |-> NoExc, ret |-> None, cache |-> r.cache, bucketed |-> bucketed,
         emitted |-> <<log_event(r.experiment, Experiment_variant(r.experiment, inputs),
                                 inputs, EXPOSE)>>,
         errors |-> r.errors,
              reads |-> r.reads, warnings |-> r.warnings]

\* Mutant: an exposure also marks the identity as bucketed.
expose_marks_bucketed(cache, bucketed, config, experiment_name, variant_name, user, kwargs) ==
    LET r == _get_experiment(cache, config, experiment_name) IN
    IF r.exc # NoExc \/ r.experiment = None
    THEN [exc |-> r.exc, ret |-> None, cache |-> r.cache, bucketed |-> bucketed,
          emitted |-> <<>>, errors |-> r.errors,
              reads |-> r.reads, warnings |-> r.warnings]
    ELSE
        LET inputs == merge_inputs(user, kwargs) IN
        [exc |-> NoExc, ret |-> None, cache |-> r.cache,
         bucketed |-> bucketed \cup {get_unique_id(r.experiment, inputs)},
         emitted |-> <<log_event(r.experiment, variant_name, inputs, EXPOSE)>>,
         errors |-> r.errors,
              reads |-> r.reads, warnings |-> r.warnings]

expose(cache, bucketed, config, experiment_name, variant_name, user, kwargs) ==
    LET r == _get_experiment(cache, config, experiment_name) IN
    IF r.exc # NoExc \/ r.experiment = None
    THEN [exc |-> r.exc, ret |-> None, cache |-> r.cache, bucketed |-> bucketed,
          emitted |-> <<>>, errors |-> r.errors,
              reads |-> r.reads, warnings |-> r.warnings]
    ELSE
        LET inputs == merge_inputs(user, kwargs) IN
        [exc |-> NoExc, ret |-> None, cache |-> r.cache, bucketed |-> bucketed,
         emitted |-> <<log_event(r.experiment, variant_name, inputs, EXPOSE)>>,
         errors |-> r.errors,
              reads |-> r.reads, warnings |-> r.warnings]

\* ------------------------------------------------------------------ actions
\* The (user, kwargs) pairs callers pass: no User and any user_id keyword, or a
\* User whose event_fields() replace the keyword.
\* logger.warning in _get_config, counted per experiment name.
warn(counts, names) ==
    [n \in Names |-> IF n \in names THEN counts[n] + 1 ELSE counts[n]]

\* variant() when EventLogger.log raises: the exception leaves variant() at the
\* log call, so neither the add to _already_bucketed nor the return is reached.
variant_log_raises(cache, bucketed, config, name, user, bucketing_event_override, kwargs) ==
    LET r == variant(cache, bucketed, config, name, user, bucketing_event_override,
                     kwargs)
    IN
    IF r.emitted # <<>>
    THEN [exc |-> EventLoggerError, ret |-> None, cache |-> r.cache,
          bucketed |-> bucketed, emitted |-> <<>>, errors |-> r.errors,
          reads |-> r.reads, warnings |-> r.warnings]
    ELSE r

\* Mutant: the identity is never added to _already_bucketed.
mark_bucketed_never(bucketed, bucketing_id) == bucketed

\* self._already_bucketed.add(bucketing_id)
mark_bucketed(bucketed, bucketing_id) == bucketed \cup {bucketing_id}

\* A thread that is not inside variant().
Idle ==
    [pc |-> "idle", name |-> None, override |-> None, experiment |-> None,
     variant |-> None, inputs |-> [user_id |-> None], bucketing_id |-> None]

CallInputs ==
    {[user |-> None, kwargs |-> [user_id |-> k]] : k \in UserIds}
        \cup {[user |-> u, kwargs |-> [user_id |-> "u2"]] : u \in Users}
ExposeInputs ==
    {[user |-> None, kwargs |-> [user_id |-> k]] : k \in ExposedIds}
        \cup {[user |-> u, kwargs |-> [user_id |-> None]] : u \in Users}

NoCall ==
    [op |-> "init", name |-> None, user_id |-> None, override |-> None,
     variant_name |-> None, ret |-> None, names |-> {}, exc |-> NoExc,
     emitted |-> <<>>, reads |-> 0]

Init ==
    /\ config_data \in Snapshots
    /\ _experiment_cache = EmptyMapping
    /\ _already_bucketed = {}
    /\ logged = <<>>
    /\ error_names = {}
    /\ warning_count = [n \in Names |-> 0]
    /\ calls = [t \in Threads |-> Idle]
    /\ overlapped = FALSE
    /\ last = NoCall

Variant ==
    \E name \in Names, override \in Overrides, in \in CallInputs :
        LET r == variant(_experiment_cache, _already_bucketed, config_data, name,
                         in.user, override, in.kwargs)
        IN
        /\ Len(logged) + Len(r.emitted) <= MaxLogged
        /\ \A n \in r.warnings : warning_count[n] < MaxWarnings
        /\ _experiment_cache' = r.cache
        /\ _already_bucketed' = r.bucketed
        /\ logged' = logged \o r.emitted
        /\ error_names' = error_names \cup r.errors
        /\ warning_count' = warn(warning_count, r.warnings)
        /\ last' = [op |-> "variant", name |-> name,
                    user_id |-> merge_inputs(in.user, in.kwargs).user_id,
                    override |-> override, variant_name |-> None, ret |-> r.ret,
                    names |-> {}, exc |-> r.exc, emitted |-> r.emitted,
                    reads |-> r.reads]
        /\ UNCHANGED <<config_data, calls, overlapped>>

Expose ==
    \E name \in Names, variant_name \in VariantNames, in \in ExposeInputs :
        LET r == expose(_experiment_cache, _already_bucketed, config_data, name,
                        variant_name, in.user, in.kwargs)
        IN
        /\ Len(logged) + Len(r.emitted) <= MaxLogged
        /\ \A n \in r.warnings : warning_count[n] < MaxWarnings
        /\ _experiment_cache' = r.cache
        /\ _already_bucketed' = r.bucketed
        /\ logged' = logged \o r.emitted
        /\ error_names' = error_names \cup r.errors
        /\ warning_count' = warn(warning_count, r.warnings)
        /\ last' = [op |-> "expose", name |-> name,
                    user_id |-> merge_inputs(in.user, in.kwargs).user_id,
                    override |-> None, variant_name |-> variant_name, ret |-> r.ret,
                    names |-> {}, exc |-> r.exc, emitted |-> r.emitted,
                    reads |-> r.reads]
        /\ UNCHANGED <<config_data, calls, overlapped>>

IsValidExperiment ==
    \E name \in Names :
        LET r == is_valid_experiment(_experiment_cache, config_data, name) IN
        /\ \A n \in r.warnings : warning_count[n] < MaxWarnings
        /\ _experiment_cache' = r.cache
        /\ error_names' = error_names \cup r.errors
        /\ warning_count' = warn(warning_count, r.warnings)
        /\ last' = [op |-> "is_valid_experiment", name |-> name, user_id |-> None,
                    override |-> None, variant_name |-> None, ret |-> r.ret,
                    names |-> {}, exc |-> r.exc, emitted |-> <<>>,
                    reads |-> r.reads]
        /\ UNCHANGED <<config_data, _already_bucketed, logged, calls, overlapped>>

GetAllExperimentNames ==
    LET r == get_all_experiment_names(config_data) IN
    /\ last' = [op |-> "get_all_experiment_names", name |-> None, user_id |-> None,
                override |-> None, variant_name |-> None, ret |-> None,
                names |-> r.ret, exc |-> r.exc, emitted |-> <<>>, reads |-> 1]
    /\ UNCHANGED <<config_data, _experiment_cache, _already_bucketed, logged,
                   error_names, warning_count, calls, overlapped>>

\* The ConfigWatcher publishes a new snapshot (or loses the file).
Refresh ==
    /\ config_data' \in Snapshots \ {config_data}
    /\ last' = [NoCall EXCEPT !.op = "refresh"]
    /\ UNCHANGED <<_experiment_cache, _already_bucketed, logged, error_names,
                   warning_count, calls, overlapped>>

Next ==
    \/ Variant
    \/ Expose
    \/ IsValidExperiment
    \/ GetAllExperimentNames
    \/ Refresh

Spec == Init /\ [][Next]_vars

\* ---------------------------------------------- a failing event logger
\* variant() on a call whose EventLogger.log raises.
VariantLogRaises ==
    \E name \in Names, override \in Overrides, in \in CallInputs :
        LET r == variant_log_raises(_experiment_cache, _already_bucketed,
                                    config_data, name, in.user, override, in.kwargs)
        IN
        /\ r.exc = EventLoggerError
        /\ \A n \in r.warnings : warning_count[n] < MaxWarnings
        /\ _experiment_cache' = r.cache
        /\ _already_bucketed' = r.bucketed
        /\ logged' = logged \o r.emitted
        /\ error_names' = error_names \cup r.errors
        /\ warning_count' = warn(warning_count, r.warnings)
        /\ last' = [op |-> "variant", name |-> name,
                    user_id |-> merge_inputs(in.user, in.kwargs).user_id,
                    override |-> override, variant_name |-> None, ret |-> r.ret,
                    names |-> {}, exc |-> r.exc, emitted |-> r.emitted,
                    reads |-> r.reads]
        /\ UNCHANGED <<config_data, calls, overlapped>>

NextLogFail ==
    \/ Next
    \/ VariantLogRaises

SpecLogFail == Init /\ [][NextLogFail]_vars

\* ------------------------------- variant() calls interleaved on one instance
\* Lines 180-208: resolve the experiment, compute the variant and decide do_log.
\* A call that does not log returns here; one that logs goes on to the log call.
Begin(t) ==
    \E name \in Names, override \in Overrides, in \in CallInputs :
        LET r == _get_experiment(_experiment_cache, config_data, name)
            inputs == merge_inputs(in.user, in.kwargs)
            returned(value) ==
                [op |-> "variant", name |-> name, user_id |-> inputs.user_id,
                 override |-> override, variant_name |-> None, ret |-> value,
                 names |-> {}, exc |-> r.exc, emitted |-> <<>>, reads |-> r.reads]
        IN
        /\ calls[t].pc = "idle"
        /\ \A n \in r.warnings : warning_count[n] < MaxWarnings
        /\ _experiment_cache' = r.cache
        /\ error_names' = error_names \cup r.errors
        /\ warning_count' = warn(warning_count, r.warnings)
        /\ overlapped' = (overlapped \/ \E u \in Threads \ {t} : calls[u].pc # "idle")
        /\ IF r.exc # NoExc \/ r.experiment = None
           THEN /\ last' = returned(None)
                /\ UNCHANGED calls
           ELSE LET experiment == r.experiment
                    variant_value == Experiment_variant(experiment, inputs)
                    bucketing_id == get_unique_id(experiment, inputs)
                IN
                IF do_log(experiment, variant_value, bucketing_id, override,
                          _already_bucketed)
                THEN /\ calls' = [calls EXCEPT ![t] =
                                     [pc |-> "log", name |-> name,
                                      override |-> override,
                                      experiment |-> experiment,
                                      variant |-> variant_value, inputs |-> inputs,
                                      bucketing_id |-> bucketing_id]]
                     /\ UNCHANGED last
                ELSE /\ last' = returned(variant_value)
                     /\ UNCHANGED calls
        /\ UNCHANGED <<config_data, _already_bucketed, logged>>

\* Line 212: self._event_logger.log(..., event_type=EventType.BUCKET, ...)
Emit(t) ==
    /\ calls[t].pc = "log"
    /\ Len(logged) < MaxLogged
    /\ logged' = Append(logged, log_event(calls[t].experiment, calls[t].variant,
                                          calls[t].inputs, BUCKET))
    /\ calls' = [calls EXCEPT ![t].pc = "add"]
    /\ UNCHANGED <<config_data, _experiment_cache, _already_bucketed, error_names,
                   warning_count, overlapped, last>>

\* Lines 223-225: add the identity to _already_bucketed and return the variant.
Record(t) ==
    /\ calls[t].pc = "add"
    /\ _already_bucketed' = mark_bucketed(_already_bucketed, calls[t].bucketing_id)
    /\ calls' = [calls EXCEPT ![t] = Idle]
    /\ last' = [op |-> "variant", name |-> calls[t].name,
                user_id |-> calls[t].inputs.user_id,
                override |-> calls[t].override, variant_name |-> None,
                ret |-> calls[t].variant, names |-> {}, exc |-> NoExc,
                emitted |-> <<log_event(calls[t].experiment, calls[t].variant,
                                        calls[t].inputs, BUCKET)>>,
                reads |-> 0]
    /\ UNCHANGED <<config_data, _experiment_cache, logged, error_names,
                   warning_count, overlapped>>

ThreadBegin == \E t \in Threads : Begin(t)
ThreadEmit == \E t \in Threads : Emit(t)
ThreadRecord == \E t \in Threads : Record(t)

NextThreads ==
    \/ ThreadBegin
    \/ ThreadEmit
    \/ ThreadRecord

SpecThreads == Init /\ [][NextThreads]_vars

\* -------------------------------------------------------- checked properties
\* name is memoized as a provider
ProviderCached(cache, name) == name \in DOMAIN cache /\ cache[name] # None

\* The merged inputs of the most recent variant()/expose() call.
LastInputs == [user_id |-> last.user_id]

\* Positions of the BUCKET events in the log, and the identity an event is for.
BucketEvents == {i \in 1..Len(logged) : logged[i].event_type = BUCKET}
EventIdentity(e) == get_unique_id(e.experiment, e.inputs)
BucketCount(id) == Cardinality({i \in BucketEvents : EventIdentity(logged[i]) = id})

\* The snapshot gives no definition for name: unavailable, not a mapping, or
\* the name is not a key.
NotInSnapshot(config, name) ==
    ~config.available \/ ~config.mapping \/ name \notin DOMAIN config.data

\* One of the four configuration failures meets a resolution of name.
ConfigFailure(config, name) ==
    NotInSnapshot(config, name) \/ config.data[name] = InvalidBlob

ResolvingOps == {"variant", "expose", "is_valid_experiment"}

\* ----------------------------------------------------------------------- C1
\* C1 as stated: after any variant() call that resolves to a non-empty
\* bucketing identity, exactly one BUCKET event has been emitted for that
\* identity, and the call returns the variant that event carries.
C1_ExactlyOnePerIdentity ==
    (last.op = "variant" /\ ProviderCached(_experiment_cache, last.name)) =>
        LET id == get_unique_id(_experiment_cache[last.name], LastInputs) IN
        Truthy(id) =>
            /\ BucketCount(id) = 1
            /\ \A i \in BucketEvents :
                EventIdentity(logged[i]) = id => logged[i].variant = last.ret

\* C1 amended: at most one BUCKET event is ever emitted per bucketing identity
\* (so a call with an identity already bucketed emits nothing more), every
\* resolved call returns the variant the provider computes for its inputs, and
\* that is the variant of the BUCKET event logged for the same experiment and
\* inputs.
C1_AtMostOnePerIdentity ==
    /\ \A id \in UserIds : BucketCount(id) <= 1
    /\ (last.op = "variant" /\ ProviderCached(_experiment_cache, last.name)) =>
        LET experiment == _experiment_cache[last.name] IN
        /\ last.ret = Experiment_variant(experiment, LastInputs)
        /\ \A i \in BucketEvents :
            (logged[i].experiment = experiment /\ logged[i].inputs = LastInputs)
                => logged[i].variant = last.ret

\* A repeated call: the identity already has its BUCKET event, the call would
\* otherwise be eligible, returns its variant and emits nothing.
C1_Witness ==
    /\ last.op = "variant"
    /\ ProviderCached(_experiment_cache, last.name)
    /\ should_log_bucketing(_experiment_cache[last.name])
    /\ last.override # PyFalse
    /\ last.ret \notin {None, ""}
    /\ last.emitted = <<>>
    /\ BucketCount(last.user_id) = 1

\* ----------------------------------------------------------------------- C2
\* C2: a variant() call on a resolved experiment emits a BUCKET event iff the
\* unique id is non-empty, the variant is not None (the empty string counts),
\* the override is not False, the id is not yet in the dedup set and
\* should_log_bucketing() holds; when it emits the id joins the dedup set, and
\* otherwise the dedup set and the log are unchanged.
C2_EmitsIffEligible ==
    [][(last'.op = "variant" /\ ProviderCached(_experiment_cache', last'.name)) =>
        LET experiment == _experiment_cache'[last'.name]
            inputs == [user_id |-> last'.user_id]
            id == get_unique_id(experiment, inputs)
            v == Experiment_variant(experiment, inputs)
            eligible ==
                /\ id # None /\ id # ""
                /\ v # None
                /\ last'.override # PyFalse
                /\ id \notin _already_bucketed
                /\ should_log_bucketing(experiment)
        IN
        IF eligible
        THEN /\ Len(logged') = Len(logged) + 1
             /\ SubSeq(logged', 1, Len(logged)) = logged
             /\ logged'[Len(logged')].event_type = BUCKET
             /\ logged'[Len(logged')].experiment = experiment
             /\ logged'[Len(logged')].variant = v
             /\ logged'[Len(logged')].inputs = inputs
             /\ _already_bucketed' = _already_bucketed \cup {id}
        ELSE /\ logged' = logged
             /\ _already_bucketed' = _already_bucketed
      ]_vars

\* An eligible call whose variant is the empty string emitted its event.
C2_Witness ==
    /\ last.op = "variant"
    /\ last.ret = ""
    /\ Len(last.emitted) = 1
    /\ last.emitted[1].event_type = BUCKET
    /\ last.user_id \in _already_bucketed

\* ----------------------------------------------------------------------- C3
\* C3 as stated: whenever the snapshot gives no definition for the name, a
\* variant() call returns None and emits nothing.
C3_AbsentNameNoVariant ==
    (last.op = "variant" /\ NotInSnapshot(config_data, last.name)) =>
        (last.exc = NoExc /\ last.ret = None /\ last.emitted = <<>>)

\* C3 amended: whenever the snapshot gives no definition for the name and the
\* name is not already memoized as a provider, variant() returns None, emits
\* nothing and leaves the dedup set unchanged.
C3_AbsentUnmemoizedNameNoVariant ==
    [][(/\ last'.op = "variant"
        /\ NotInSnapshot(config_data, last'.name)
        /\ ~ProviderCached(_experiment_cache, last'.name)) =>
            /\ last'.exc = NoExc
            /\ last'.ret = None
            /\ last'.emitted = <<>>
            /\ logged' = logged
            /\ _already_bucketed' = _already_bucketed
      ]_vars

\* After earlier bucketing, a call for a name the snapshot lacks returned None.
C3_Witness ==
    /\ last.op = "variant"
    /\ config_data.mapping
    /\ last.name \notin DOMAIN config_data.data
    /\ ~ProviderCached(_experiment_cache, last.name)
    /\ last.ret = None
    /\ last.user_id = "u2"
    /\ _already_bucketed # {}

\* ----------------------------------------------------------------------- C4
\* C4: variant() with bucketing_event_override=False emits nothing and leaves
\* the dedup set alone whatever the state, and returns what the same call
\* without the override returns.
C4_OverrideFalseSuppresses ==
    [][(last'.op = "variant" /\ last'.override = PyFalse) =>
        /\ logged' = logged
        /\ _already_bucketed' = _already_bucketed
        /\ last'.emitted = <<>>
        /\ last'.ret =
            variant(_experiment_cache, _already_bucketed, config_data, last'.name,
                    None, None, [user_id |-> last'.user_id]).ret
      ]_vars

\* An override=False call that every other condition would have let log.
C4_Witness ==
    /\ last.op = "variant"
    /\ last.override = PyFalse
    /\ ProviderCached(_experiment_cache, last.name)
    /\ should_log_bucketing(_experiment_cache[last.name])
    /\ Truthy(last.user_id)
    /\ last.user_id \notin _already_bucketed
    /\ last.ret = "treatment"

\* ----------------------------------------------------------------------- C5
\* C5: variant(), expose() and is_valid_experiment() never raise; when the
\* resolution of a not-yet-memoized name meets a configuration failure
\* (snapshot unavailable, not a mapping, name missing, definition unparsable)
\* the call yields None (False for is_valid_experiment) and emits nothing.
C5_ConfigFailuresDegrade ==
    [][(last'.op \in ResolvingOps) =>
        /\ last'.exc = NoExc
        /\ (/\ last'.name \notin DOMAIN _experiment_cache
            /\ ConfigFailure(config_data, last'.name)) =>
                /\ last'.ret = IF last'.op = "is_valid_experiment" THEN PyFalse ELSE None
                /\ logged' = logged
                /\ _already_bucketed' = _already_bucketed
      ]_vars

\* After earlier bucketing, a variant() call met a definition that fails to
\* parse and returned None without raising.
C5_Witness ==
    /\ last.op = "variant"
    /\ config_data.mapping
    /\ last.name \in DOMAIN config_data.data
    /\ config_data.data[last.name] = InvalidBlob
    /\ last.name \notin DOMAIN _experiment_cache
    /\ last.name \in error_names
    /\ last.ret = None
    /\ last.exc = NoExc
    /\ _already_bucketed # {}

\* ----------------------------------------------------------------------- C6
\* C6 as stated: every expose() call emits exactly one EXPOSE event.
C6_EveryExposeEmits ==
    last.op = "expose" =>
        (Len(last.emitted) = 1 /\ last.emitted[1].event_type = EXPOSE)

\* C6 amended: every expose() call whose experiment resolves to a provider
\* emits exactly one EXPOSE event, whether or not the identity is in the dedup
\* set; the event carries the caller's variant name; a call whose experiment
\* does not resolve emits nothing; either way the dedup set is unchanged.
C6_ResolvedExposeEmitsOnce ==
    [][(last'.op = "expose") =>
        /\ _already_bucketed' = _already_bucketed
        /\ IF ProviderCached(_experiment_cache', last'.name)
           THEN /\ Len(logged') = Len(logged) + 1
                /\ SubSeq(logged', 1, Len(logged)) = logged
                /\ logged'[Len(logged')].event_type = EXPOSE
                /\ logged'[Len(logged')].variant = last'.variant_name
                /\ logged'[Len(logged')].experiment = _experiment_cache'[last'.name]
                /\ logged'[Len(logged')].user_id = last'.user_id
           ELSE logged' = logged
      ]_vars

\* An exposure reported for an identity already bucketed, under a variant name
\* the provider would not have computed.
C6_Witness ==
    /\ last.op = "expose"
    /\ last.user_id \in _already_bucketed
    /\ ProviderCached(_experiment_cache, last.name)
    /\ last.variant_name # Experiment_variant(_experiment_cache[last.name], LastInputs)
    /\ Len(last.emitted) = 1
    /\ last.emitted[1].event_type = EXPOSE
    /\ last.emitted[1].variant = last.variant_name

\* ----------------------------------------------------------------------- C7
\* C7: a variant() call on an experiment whose should_log_bucketing() is false
\* emits nothing and adds nothing to the dedup set, and the log never holds a
\* BUCKET event of such an experiment.
C7_NoLogExperimentNeverBuckets ==
    [][/\ (last'.op = "variant" /\ ProviderCached(_experiment_cache', last'.name)
            /\ ~should_log_bucketing(_experiment_cache'[last'.name])) =>
                (logged' = logged /\ _already_bucketed' = _already_bucketed)
       /\ \A i \in 1..Len(logged') :
            logged'[i].event_type = BUCKET => should_log_bucketing(logged'[i].experiment)
      ]_vars

\* A first call, otherwise eligible, on the experiment that disables bucketing.
C7_Witness ==
    /\ last.op = "variant"
    /\ ProviderCached(_experiment_cache, last.name)
    /\ ~should_log_bucketing(_experiment_cache[last.name])
    /\ last.ret = "control"
    /\ last.override # PyFalse
    /\ Truthy(last.user_id)
    /\ _already_bucketed = {}
    /\ logged = <<>>

\* ----------------------------------------------------------------------- C8
\* C8: when a resolution of a not-yet-memoized name reads a definition that
\* fails to parse, the name stays out of the cache (and the error is logged);
\* when it reads a well-formed definition, also after earlier failures, the
\* provider parsed from the current snapshot is memoized.
C8_ParseFailureNotMemoized ==
    [][(/\ last'.op \in ResolvingOps
        /\ last'.name \notin DOMAIN _experiment_cache
        /\ ~NotInSnapshot(config_data, last'.name)) =>
            LET blob == config_data.data[last'.name] IN
            /\ blob = InvalidBlob =>
                /\ _experiment_cache' = _experiment_cache
                /\ last'.name \in error_names'
            /\ blob \in ValidBlobs =>
                /\ last'.name \in DOMAIN _experiment_cache'
                /\ _experiment_cache'[last'.name] = parse_experiment(blob).experiment
      ]_vars

\* A name whose parse once failed is resolved and memoized after the fix.
C8_Witness ==
    /\ last.op \in ResolvingOps
    /\ last.name \in error_names
    /\ ProviderCached(_experiment_cache, last.name)
    /\ (last.op = "is_valid_experiment" => last.ret = PyTrue)

\* ----------------------------------------------------------------------- C9
\* C9: a memoized cache entry, provider or None, never changes or disappears.
C9_CacheEntriesFrozen ==
    [][\A n \in DOMAIN _experiment_cache :
        n \in DOMAIN _experiment_cache' /\ _experiment_cache'[n] = _experiment_cache[n]
      ]_vars

\* One name is memoized absent although the snapshot now defines it, another
\* holds a provider other than the one the snapshot now defines, and a call on
\* the first has just answered from the cache.
C9_Witness ==
    /\ last.op = "is_valid_experiment"
    /\ last.ret = PyFalse
    /\ last.name \in DOMAIN _experiment_cache
    /\ _experiment_cache[last.name] = None
    /\ config_data.mapping
    /\ last.name \in DOMAIN config_data.data
    /\ config_data.data[last.name] \in ValidBlobs
    /\ \E n \in DOMAIN _experiment_cache :
        /\ _experiment_cache[n] # None
        /\ n \in DOMAIN config_data.data
        /\ config_data.data[n] \in ValidBlobs
        /\ parse_experiment(config_data.data[n]).experiment # _experiment_cache[n]

\* ---------------------------------------------------------------------- C10
\* C10: get_all_experiment_names(), called while a snapshot mapping is loaded,
\* returns exactly that snapshot's key set whatever the cache holds, and never
\* modifies the cache, the dedup set or the log.
C10_NamesAreSnapshotKeys ==
    [][(last'.op = "get_all_experiment_names") =>
        /\ _experiment_cache' = _experiment_cache
        /\ _already_bucketed' = _already_bucketed
        /\ logged' = logged
        /\ (config_data.available /\ config_data.mapping) =>
            (last'.exc = NoExc /\ last'.names = DOMAIN config_data.data)
      ]_vars

\* After a refresh the listing has a name memoized as absent and lacks a name
\* memoized as a provider.
C10_Witness ==
    /\ last.op = "get_all_experiment_names"
    /\ last.exc = NoExc
    /\ \E n \in last.names : n \in DOMAIN _experiment_cache /\ _experiment_cache[n] = None
    /\ \E n \in DOMAIN _experiment_cache : _experiment_cache[n] # None /\ n \notin last.names

\* ---------------------------------------------------------------------- C11
\* C11: the value a variant() call on a resolved experiment returns is the
\* variant the provider computes from the merged inputs, and the same call
\* made from the same cache and snapshot with any other dedup set and any
\* other override returns the same value.
C11_ReturnIndependentOfLogging ==
    [][(last'.op = "variant" /\ ProviderCached(_experiment_cache', last'.name)) =>
        LET inputs == [user_id |-> last'.user_id] IN
        /\ last'.ret = Experiment_variant(_experiment_cache'[last'.name], inputs)
        /\ \A bucketed \in SUBSET {"u1", "u2"}, override \in Overrides :
            variant(_experiment_cache, bucketed, config_data, last'.name, None,
                    override, inputs).ret = last'.ret
      ]_vars

\* A call suppressed twice over (override False, identity already bucketed)
\* that still returned the provider's variant.
C11_Witness ==
    /\ last.op = "variant"
    /\ last.override = PyFalse
    /\ last.user_id \in _already_bucketed
    /\ last.emitted = <<>>
    /\ last.ret = "treatment"

\* ---------------------------------------------------------------------- C12
\* C12: a variant() call with override True has the outcome (returned value,
\* emitted events, dedup set, cache) that the same call with override None
\* has from the same state, and the other way round.
C12_OverrideTrueIsNone ==
    [][(last'.op = "variant" /\ last'.override \in {PyTrue, None}) =>
        LET other == IF last'.override = PyTrue THEN None ELSE PyTrue
            r == variant(_experiment_cache, _already_bucketed, config_data,
                         last'.name, None, other, [user_id |-> last'.user_id])
        IN
        /\ last'.ret = r.ret
        /\ last'.exc = r.exc
        /\ last'.emitted = r.emitted
        /\ logged' = logged \o r.emitted
        /\ _already_bucketed' = r.bucketed
        /\ _experiment_cache' = r.cache
      ]_vars

\* An override=True call that logged its BUCKET event.
C12_Witness ==
    /\ last.op = "variant"
    /\ last.override = PyTrue
    /\ Len(last.emitted) = 1
    /\ last.emitted[1].event_type = BUCKET
    /\ last.user_id \in _already_bucketed

\* ---------------------------------------------------------------------- C13
\* C13: the dedup set starts empty, never loses an element, changes only in a
\* variant() call that emits a BUCKET event, and always equals the set of
\* identities of the BUCKET events emitted so far.
C13_DedupSetIsBucketedIdentities ==
    /\ _already_bucketed = {}
    /\ [][/\ _already_bucketed \subseteq _already_bucketed'
          /\ (_already_bucketed' # _already_bucketed) =>
                /\ last'.op = "variant"
                /\ Len(last'.emitted) = 1
                /\ last'.emitted[1].event_type = BUCKET
                /\ _already_bucketed' =
                    _already_bucketed \cup {EventIdentity(last'.emitted[1])}
          /\ _already_bucketed' =
                {EventIdentity(logged'[i]) :
                    i \in {j \in 1..Len(logged') : logged'[j].event_type = BUCKET}}
         ]_vars

\* Both identities have been bucketed, each by its own BUCKET event.
C13_Witness ==
    /\ _already_bucketed = {"u1", "u2"}
    /\ Cardinality(BucketEvents) = 2
    /\ last.op = "variant"

\* ---------------------------------------------------------------------- C19
\* C19: once a BUCKET event has been logged for an identity through one
\* experiment, a variant() call resolving to another experiment with the same
\* identity logs nothing, leaves the dedup set unchanged and returns that
\* other experiment's variant.
C19_DedupKeyedByIdentityAlone ==
    [][(last'.op = "variant" /\ ProviderCached(_experiment_cache', last'.name)) =>
        LET experiment == _experiment_cache'[last'.name]
            inputs == [user_id |-> last'.user_id]
            id == get_unique_id(experiment, inputs)
        IN
        (\E i \in BucketEvents :
            /\ EventIdentity(logged[i]) = id
            /\ logged[i].experiment # experiment) =>
                /\ logged' = logged
                /\ last'.emitted = <<>>
                /\ _already_bucketed' = _already_bucketed
                /\ last'.ret = Experiment_variant(experiment, inputs)
      ]_vars

\* u2 was bucketed through experiment A; an otherwise eligible call on
\* experiment C for u2 returned "control" and logged nothing.
C19_Witness ==
    /\ last.op = "variant"
    /\ ProviderCached(_experiment_cache, last.name)
    /\ _experiment_cache[last.name] = "C"
    /\ last.user_id = "u2"
    /\ last.override # PyFalse
    /\ last.ret = "control"
    /\ last.emitted = <<>>
    /\ \E i \in BucketEvents :
        logged[i].experiment = "A" /\ EventIdentity(logged[i]) = "u2"

\* ---------------------------------------------------------------------- C20
\* C20: a variant() call on a resolved experiment that is suppressed by
\* override False, by a None variant or by should_log_bucketing() being false
\* leaves the dedup set and the log unchanged, and right after it a call with
\* the same identity that meets every eligibility condition logs its BUCKET
\* event.
C20_SuppressedCallKeepsIdentity ==
    [][(last'.op = "variant" /\ ProviderCached(_experiment_cache', last'.name)) =>
        LET experiment == _experiment_cache'[last'.name]
            inputs == [user_id |-> last'.user_id]
            id == get_unique_id(experiment, inputs)
            suppressed ==
                \/ last'.override = PyFalse
                \/ Experiment_variant(experiment, inputs) = None
                \/ ~should_log_bucketing(experiment)
        IN
        suppressed =>
            /\ _already_bucketed' = _already_bucketed
            /\ logged' = logged
            /\ \A n \in Names :
                (/\ ProviderCached(_experiment_cache', n)
                 /\ should_log_bucketing(_experiment_cache'[n])
                 /\ Experiment_variant(_experiment_cache'[n], inputs) # None
                 /\ Truthy(id)
                 /\ id \notin _already_bucketed) =>
                    LET later == variant(_experiment_cache', _already_bucketed',
                                         config_data', n, None, None, inputs)
                    IN /\ Len(later.emitted) = 1
                       /\ later.emitted[1].event_type = BUCKET
                       /\ later.bucketed = _already_bucketed' \cup {id}
      ]_vars

\* A call suppressed by a None variant for an identity not yet bucketed, on an
\* instance where another memoized experiment would bucket that identity.
C20_Witness ==
    /\ last.op = "variant"
    /\ ProviderCached(_experiment_cache, last.name)
    /\ last.ret = None
    /\ last.override # PyFalse
    /\ Truthy(last.user_id)
    /\ last.user_id \notin _already_bucketed
    /\ \E n \in DOMAIN _experiment_cache :
        /\ _experiment_cache[n] \notin {None, _experiment_cache[last.name]}
        /\ should_log_bucketing(_experiment_cache[n])
        /\ Experiment_variant(_experiment_cache[n], LastInputs) # None

\* ---------------------------------------------------------------------- C15
\* C15: whenever a resolution of a not-yet-memoized name finds the name among
\* the keys of a loaded snapshot mapping, it ends either with a provider
\* memoized for the name or with the name still out of the cache; it never
\* memoizes the name as absent.
C15_PresentBlobNeverMemoizedAbsent ==
    [][(/\ last'.op \in ResolvingOps
        /\ last'.name \notin DOMAIN _experiment_cache
        /\ ~NotInSnapshot(config_data, last'.name)) =>
            \/ ProviderCached(_experiment_cache', last'.name)
            \/ last'.name \notin DOMAIN _experiment_cache'
      ]_vars

\* ---------------------------------------------------------------------- C17
\* C17: get_all_experiment_names() never raises, whatever the snapshot is.
C17_NamesNeverRaises ==
    last.op = "get_all_experiment_names" => last.exc = NoExc

\* C14 (as stated): after an eligible variant() call whose EventLogger.log
\* attempt fails, the bucketing identity is in the dedup set, so the emission
\* is not attempted again for that identity.
C14_FailedEmissionIsRecorded ==
    (last.op = "variant" /\ last.exc = EventLoggerError) =>
        get_unique_id(_experiment_cache[last.name], LastInputs) \in _already_bucketed

\* C16: a resolution of a memoized name (provider or confirmed-absent) through
\* variant(), expose() or is_valid_experiment() answers from the cache: it does
\* not read the snapshot, logs no warning and no error, leaves the cache as it
\* was, and a name memoized as absent yields no variant, no event and False.
\* The snapshot is read exactly when the name is not memoized, and no name
\* ever gets more than one absent-warning.
C16_MemoizedNameSkipsSnapshot ==
    [][last'.op \in ResolvingOps =>
          /\ (last'.reads = 0) <=> (last'.name \in DOMAIN _experiment_cache)
          /\ last'.name \in DOMAIN _experiment_cache =>
                /\ _experiment_cache' = _experiment_cache
                /\ warning_count' = warning_count
                /\ error_names' = error_names
                /\ last'.exc = NoExc
                /\ last'.op = "is_valid_experiment" =>
                      (last'.ret = PyTrue <=>
                           ProviderCached(_experiment_cache, last'.name))
                /\ _experiment_cache[last'.name] = None =>
                      /\ last'.ret \in {None, PyFalse}
                      /\ logged' = logged
          /\ \A n \in Names : warning_count'[n] <= 1
      ]_vars

\* C16 witness: a name memoized as absent after one warning is resolved again
\* when the snapshot has since gained a valid definition for it; the call is
\* answered without a read.
C16_Witness ==
    /\ last.op \in ResolvingOps
    /\ last.reads = 0
    /\ last.name \in DOMAIN _experiment_cache
    /\ _experiment_cache[last.name] = None
    /\ warning_count[last.name] = 1
    /\ config_data.mapping
    /\ last.name \in DOMAIN config_data.data
    /\ config_data.data[last.name] \in ValidBlobs

\* C18: two BUCKET events for one bucketing identity are emitted only when a
\* variant() call began on the shared instance while another was in progress;
\* calls that run one after another emit at most one.
C18_DuplicateNeedsOverlap ==
    (\E id \in UserIds : BucketCount(id) >= 2) => overlapped

\* C18 witness: two interleaved variant() calls with the same identity have
\* both passed the membership check and both emitted.
C18_Witness ==
    /\ overlapped
    /\ \E id \in UserIds : Truthy(id) /\ BucketCount(id) = 2
    /\ \A t \in Threads : calls[t].pc = "idle"
    /\ last.op = "variant"
====
